---- MODULE Spec2Model ----
(***************************************************************************)
(* Model of the resume analyzer: the analysis pipeline of app.py and       *)
(* analyzer.py and the SQLite store of database.py.                        *)
(*                                                                         *)
(* Spec        the Streamlit pages as sequential handlers over one         *)
(*             database                                                    *)
(* SpecStore   the functions of database.py, call by call                  *)
(* SpecTxn     save_analysis statement by statement on two connections,    *)
(*             with SQLite's write lock, commit and loss of a connection   *)
(* SpecParse   the response parser of analyze_resume as a pure function    *)
(* SpecRequest one analyze_resume call from the request to its return or   *)
(*             its exception                                               *)
(***************************************************************************)
EXTENDS Integers, Sequences, FiniteSets, TLC

(* ------------------------------ bounds --------------------------------- *)

\* Spec: number of analyses the Analyze page stores in one behaviour
MaxAnalyses == 2

\* SpecStore: number of save_analysis calls in one behaviour
MaxStores == 3

\* SpecTxn: number of save_analysis calls started in one behaviour
MaxCalls == 3

\* largest LIMIT handed to get_top_missing_skills
MaxLimit == 2

\* the parts a response arrives in, at most
MaxChunks == 2

\* requests.post(..., timeout=60)
timeout == 60

\* The readings of datetime.now(), in half seconds: seconds 9, 10, 10 and 11,
\* so that two readings fall into one second and the seconds field goes from
\* 09 to 10.
Times == {19, 20, 21, 22}

\* SpecTxn: two readings, one second apart
TxnTimes == {19, 20}

(* --------------------------- JSON values -------------------------------- *)
\* A JSON value as json.loads returns it: an int, a str (a sequence of
\* one-character strings), a list of strings, or None.

JInt(n) == [t |-> "int", n |-> n, s |-> <<>>]

JStr(s) == [t |-> "str", n |-> 0, s |-> s]

JList(l) == [t |-> "list", n |-> 0, s |-> l]

JNull == [t |-> "null", n |-> 0, s |-> <<>>]

(* ----------------------------- helpers ---------------------------------- *)

Range(q) == {q[i] : i \in DOMAIN q}

Max(a, b) == IF a >= b THEN a ELSE b

Min(a, b) == IF a <= b THEN a ELSE b

RECURSIVE MaxOf(_)
MaxOf(S) == IF S = {} THEN 0
            ELSE LET x == CHOOSE y \in S : TRUE IN Max(x, MaxOf(S \ {x}))

\* the sequences that hold each element of q once (q's rows are distinct)
Arrangements(q) ==
    {[i \in 1..Len(q) |-> q[p[i]]] : p \in Permutations(1..Len(q))}

\* number of times x occurs in q
RECURSIVE Occ(_, _)
Occ(x, q) == IF q = <<>> THEN 0
             ELSE (IF Head(q) = x THEN 1 ELSE 0) + Occ(x, Tail(q))

(* ------------------------ text of the timestamps ------------------------- *)

\* two decimal digits, zero padded, as strftime renders a field
Digits2(n) == <<n \div 10, n % 10>>

\* datetime.now().strftime("%Y-%m-%d %H:%M:%S"): the reading cut to whole
\* seconds; within the readings of a behaviour only the %S field varies
strftime_seconds(t) == Digits2((t \div 2) % 60)

\* datetime.now().strftime("%Y-%m-%d"): the day of the reading
strftime_date(t) == Digits2((t \div (2 * 86400)) % 100)

\* SQLite compares TEXT values character by character
RECURSIVE TextLess(_, _)
TextLess(a, b) ==
    IF a = <<>> THEN b # <<>>
    ELSE IF b = <<>> THEN FALSE
    ELSE IF Head(a) # Head(b) THEN Head(a) < Head(b)
    ELSE TextLess(Tail(a), Tail(b))

(* ------------------------------ database -------------------------------- *)
\* A database is [analyses, seq, skill_tracker]: the rows of each table in
\* rowid order and the sqlite_sequence entry of analyses.

\* init_db on a new file: both tables exist and are empty
init_db == [analyses |-> <<>>, seq |-> 0, skill_tracker |-> <<>>]

\* dict.get(key, default)
Get(data, key, default) == IF key \in DOMAIN data THEN data[key] ELSE default

\* the rowid an unindexed table would hand out: one more than the largest
\* rowid in the table (a deleted top row's id comes back)
RowidMaxPlusOne(d) == MaxOf({r.id : r \in Range(d.analyses)}) + 1

\* id INTEGER PRIMARY KEY AUTOINCREMENT: one more than the largest rowid the
\* table has ever held, which sqlite_sequence remembers
NextRowid(d) == Max(d.seq, MaxOf({r.id : r \in Range(d.analyses)})) + 1

\* the INSERT INTO analyses of save_analysis, at clock reading t
insert_analysis(d, data, t) ==
    LET new_id == NextRowid(d)
        row == [id             |-> new_id,
                created_at     |-> strftime_seconds(t),
                job_title      |-> Get(data, "job_title", JStr(<<>>)).s,
                ats_score      |-> Get(data, "ats_score", JInt(0)).n,
                match_score    |-> Get(data, "match_score", JInt(0)).n,
                missing_skills |-> Get(data, "missing_skills", JList(<<>>))]
    IN  [d EXCEPT !.analyses = Append(@, row), !.seq = new_id]

\* the statement without its ON CONFLICT clause, on a table without the
\* UNIQUE constraint: every occurrence adds a row
upsert_always_insert(tracker, skill, date) ==
    Append(tracker, [skill |-> skill, times_required |-> 1, last_seen |-> date])

\* INSERT INTO skill_tracker ... ON CONFLICT(skill) DO UPDATE SET
\* times_required = times_required + 1, last_seen = excluded.last_seen
upsert_skill(tracker, skill, date) ==
    IF \E i \in DOMAIN tracker : tracker[i].skill = skill
    THEN [i \in DOMAIN tracker |->
            IF tracker[i].skill = skill
            THEN [tracker[i] EXCEPT !.times_required = @ + 1,
                                    !.last_seen = date]
            ELSE tracker[i]]
    ELSE Append(tracker,
                [skill |-> skill, times_required |-> 1, last_seen |-> date])

\* for skill in data.get("missing_skills", []): a list yields its items, a
\* str its characters
RECURSIVE upsert_all(_, _, _)
upsert_all(tracker, skills, date) ==
    IF skills = <<>> THEN tracker
    ELSE upsert_all(upsert_skill(tracker, Head(skills), date), Tail(skills), date)

\* iterating None or an int raises TypeError
Iterable(v) == v.t \in {"list", "str"}

\* save_analysis from connect to close: [db, ret, raised]. When the loop
\* raises, commit is never reached and the connection's transaction is
\* rolled back when the connection goes away.
save_analysis(d, data, t) ==
    LET inserted == insert_analysis(d, data, t)
        skills   == Get(data, "missing_skills", JList(<<>>))
    IN  IF Iterable(skills)
        THEN [db     |-> [inserted EXCEPT !.skill_tracker =
                              upsert_all(@, skills.s, strftime_date(t))],
              ret    |-> inserted.seq,
              raised |-> "none"]
        ELSE [db |-> d, ret |-> 0, raised |-> "TypeError"]

\* DELETE FROM analyses WHERE id <= ?
delete_up_to(d, analysis_id) ==
    [d EXCEPT !.analyses = SelectSeq(@, LAMBDA r : r.id > analysis_id)]

\* a delete that cascades: the skill_tracker rows of the skills the deleted
\* record names go with it
delete_cascade(d, analysis_id) ==
    LET gone == {i \in DOMAIN d.analyses : d.analyses[i].id = analysis_id}
        named(skill) ==
            \E i \in gone :
                \E k \in DOMAIN d.analyses[i].missing_skills.s :
                    d.analyses[i].missing_skills.s[k] = skill
    IN  [d EXCEPT !.analyses = SelectSeq(@, LAMBDA r : r.id # analysis_id),
                  !.skill_tracker = SelectSeq(@, LAMBDA r : ~named(r.skill))]

\* delete_analysis: DELETE FROM analyses WHERE id = ?, then commit
delete_analysis(d, analysis_id) ==
    [d EXCEPT !.analyses = SelectSeq(@, LAMBDA r : r.id # analysis_id)]

\* ORDER BY created_at ASC: no row is followed by a row with a smaller
\* created_at
CreatedAscending(r) ==
    \A i, j \in DOMAIN r :
        i < j => ~TextLess(r[j].created_at, r[i].created_at)

\* the same ORDER BY with ASC where get_all_analyses has DESC
CreatedDescending_asc(r) == CreatedAscending(r)

\* ORDER BY created_at DESC: no row is followed by a row with a larger
\* created_at; SQLite leaves the order of rows with equal keys undefined
CreatedDescending(r) ==
    \A i, j \in DOMAIN r :
        i < j => ~TextLess(r[i].created_at, r[j].created_at)

\* get_all_analyses: the results SELECT * FROM analyses ORDER BY created_at
\* DESC may return
get_all_analyses(d) ==
    {r \in Arrangements(d.analyses) : CreatedDescending(r)}

\* the columns get_score_trend selects, as the dict it builds
TrendEntry(row) ==
    [date |-> row.created_at, ats |-> row.ats_score,
     match |-> row.match_score, job |-> row.job_title]

\* get_score_trend: ... FROM analyses ORDER BY created_at ASC
get_score_trend(d) ==
    {[i \in DOMAIN r |-> TrendEntry(r[i])] :
        r \in {a \in Arrangements(d.analyses) : CreatedAscending(a)}}

\* LIMIT ?: the first rows; a negative limit is no limit
Limited(r, limit) ==
    IF limit < 0 THEN r ELSE SubSeq(r, 1, Min(limit, Len(r)))

\* get_top_missing_skills: SELECT skill, times_required FROM skill_tracker
\* ORDER BY times_required DESC LIMIT ?
get_top_missing_skills(d, limit) ==
    {[i \in DOMAIN Limited(r, limit) |->
         [skill |-> r[i].skill, count |-> r[i].times_required]] :
        r \in {a \in Arrangements(d.skill_tracker) :
                 \A i, j \in DOMAIN a :
                     i < j => a[i].times_required >= a[j].times_required}}

(* ------------------------------ analyzer -------------------------------- *)
\* The completion text is a sequence of tokens: the fence markers, white
\* space, other prose, the braces, and the members ("key": value) of an
\* object.

Tok(name) == [tok |-> name, k |-> "", v |-> JNull]

Member(key, value) == [tok |-> "member", k |-> key, v |-> value]

FenceJson == Tok("fence_json")

Fence == Tok("fence")

Space == Tok("ws")

Prose == Tok("prose")

LBrace == Tok("{")

RBrace == Tok("}")

\* the keys of the defaults dict, in its order
Fields ==
    <<"ats_score", "match_score", "matched_skills", "missing_skills",
      "strengths", "improvements", "keyword_suggestions", "experience_gap",
      "education_match", "overall_summary", "quick_wins">>

\* defaults = {...}
defaults ==
    [k \in Range(Fields) |->
        CASE k \in {"ats_score", "match_score"} -> JInt(0)
          [] k \in {"experience_gap", "education_match", "overall_summary"} ->
                JStr(<<>>)
          [] OTHER -> JList(<<>>)]

\* the white space at the start of the text
RECURSIVE LStrip(_)
LStrip(raw) ==
    IF raw # <<>> /\ Head(raw) = Space THEN LStrip(Tail(raw)) ELSE raw

\* the white space at the end of the text
RECURSIVE RStrip(_)
RStrip(raw) ==
    IF raw # <<>> /\ raw[Len(raw)] = Space
    THEN RStrip(SubSeq(raw, 1, Len(raw) - 1))
    ELSE raw

\* str.strip()
Strip(raw) == RStrip(LStrip(raw))

\* re.sub of the first pattern: three backquotes and json at the start of
\* the text, with the white space after them
sub_fence_json(raw) ==
    IF raw # <<>> /\ Head(raw) = FenceJson THEN LStrip(Tail(raw)) ELSE raw

\* re.sub of the second pattern: three backquotes at the start of the text,
\* with the white space after them
sub_fence_open(raw) ==
    IF raw # <<>> /\ Head(raw) = Fence THEN LStrip(Tail(raw)) ELSE raw

\* re.sub of the third pattern: three backquotes at the end of the text,
\* with the white space before them
sub_fence_close(raw) ==
    IF raw # <<>> /\ raw[Len(raw)] = Fence
    THEN RStrip(SubSeq(raw, 1, Len(raw) - 1))
    ELSE raw

\* no search for the braces: the text goes on as it is
json_match_none(raw) == raw

\* re.search of the greedy brace pattern with re.DOTALL: from the first
\* opening brace to the last closing brace that follows it; the text itself
\* when there is no match
json_match(raw) ==
    LET opens  == {i \in DOMAIN raw : raw[i] = LBrace}
        first  == CHOOSE i \in opens : \A j \in opens : i <= j
        closes == {i \in DOMAIN raw : raw[i] = RBrace /\ i > first}
        last   == CHOOSE i \in closes : \A j \in closes : i >= j
    IN  IF opens = {} THEN raw
        ELSE IF closes = {} THEN raw
        ELSE SubSeq(raw, first, last)

\* json.loads of the text: an object is its members in braces, white space allowed
\* between the tokens; of two members with one key the later one counts.
\* [ok, obj]; anything else raises JSONDecodeError.
json_loads(raw) ==
    LET body    == SubSeq(raw, 2, Len(raw) - 1)
        members == SelectSeq(body, LAMBDA x : x # Space)
        keys    == {members[i].k : i \in DOMAIN members}
        lastOf(key) == CHOOSE i \in DOMAIN members :
                           /\ members[i].k = key
                           /\ \A j \in DOMAIN members :
                                  members[j].k = key => j <= i
    IN  IF /\ Len(raw) >= 2
           /\ Head(raw) = LBrace
           /\ raw[Len(raw)] = RBrace
           /\ \A i \in DOMAIN members : members[i].tok = "member"
        THEN [ok |-> TRUE, obj |-> [key \in keys |-> members[lastOf(key)].v]]
        ELSE [ok |-> FALSE, obj |-> [key \in {} |-> JNull]]

\* the decimal digits
DigitChars == <<"0", "1", "2", "3", "4", "5", "6", "7", "8", "9">>

DigitVal(c) == (CHOOSE i \in DOMAIN DigitChars : DigitChars[i] = c) - 1

RECURSIVE DecimalValue(_)
DecimalValue(cs) ==
    IF cs = <<>> THEN 0
    ELSE DecimalValue(SubSeq(cs, 1, Len(cs) - 1)) * 10 + DigitVal(cs[Len(cs)])

\* white space around the literal of int(str)
RECURSIVE StripBlanks(_)
StripBlanks(cs) ==
    IF cs # <<>> /\ Head(cs) = " " THEN StripBlanks(Tail(cs))
    ELSE IF cs # <<>> /\ cs[Len(cs)] = " "
    THEN StripBlanks(SubSeq(cs, 1, Len(cs) - 1))
    ELSE cs

\* int(x): an int is itself; a str is read as an optional sign and decimal
\* digits, white space around them ignored, and raises ValueError otherwise;
\* None and a list raise TypeError. [raised, n]
py_int(x) ==
    LET cs     == StripBlanks(x.s)
        signed == cs # <<>> /\ Head(cs) \in {"+", "-"}
        digits == IF signed THEN Tail(cs) ELSE cs
        value  == DecimalValue(digits)
    IN  CASE x.t = "int" -> [raised |-> "none", n |-> x.n]
          [] x.t = "str" ->
                IF digits # <<>> /\ \A i \in DOMAIN digits :
                                       digits[i] \in Range(DigitChars)
                THEN [raised |-> "none",
                      n |-> IF signed /\ Head(cs) = "-" THEN 0 - value ELSE value]
                ELSE [raised |-> "ValueError", n |-> 0]
          [] OTHER -> [raised |-> "TypeError", n |-> 0]

\* min(100, n) alone: the lower bound is not applied
clamp_upper_only(n) == Min(100, n)

\* max(0, min(100, n))
clamp(n) == Max(0, Min(100, n))

\* a loop over the two score keys alone
with_score_defaults(obj) ==
    [k \in DOMAIN obj \cup {"ats_score", "match_score"} |->
        IF k \in DOMAIN obj THEN obj[k] ELSE defaults[k]]

\* for key, default in defaults.items(): result.setdefault(key, default)
with_defaults(obj) ==
    [k \in DOMAIN obj \cup Range(Fields) |->
        IF k \in DOMAIN obj THEN obj[k] ELSE defaults[k]]

\* json.loads on the completion text as it came: no strip, no fence
\* patterns, no search for the braces
extract_json_as_is(content) == content

\* content.strip(), the three re.sub calls and the re.search: the text that
\* json.loads is given
extract_json(content) ==
    json_match(sub_fence_close(sub_fence_open(sub_fence_json(Strip(content)))))

\* The parsing part of analyze_resume, from the completion text to the
\* returned dict: [raised, result, raw]. raised is "none" or the exception
\* that leaves the try block; raw is the text json.loads was given.
parse_response(content) ==
    LET raw    == extract_json(content)
        loaded == json_loads(raw)
        result == with_defaults(loaded.obj)
        ats    == py_int(result["ats_score"])
        match  == py_int(result["match_score"])
        none   == [key \in {} |-> JNull]
    IN  IF ~loaded.ok
        THEN [raised |-> "JSONDecodeError", result |-> none, raw |-> raw]
        ELSE IF ats.raised # "none"
        THEN [raised |-> ats.raised, result |-> none, raw |-> raw]
        ELSE IF match.raised # "none"
        THEN [raised |-> match.raised, result |-> none, raw |-> raw]
        ELSE [raised |-> "none",
              result |-> [result EXCEPT !["ats_score"] = JInt(clamp(ats.n)),
                                        !["match_score"] = JInt(clamp(match.n))],
              raw |-> raw]

\* response.status_code and the exceptions of requests.post, mapped to the
\* ValueError analyze_resume raises (named by its message); "none" when the
\* response goes on to parsing
http_error(resp) ==
    CASE resp.kind = "timeout"    -> "timed_out"
      [] resp.kind = "connection" -> "analysis_failed"
      [] resp.status = 401        -> "invalid_api_key"
      [] resp.status = 402        -> "insufficient_credits"
      [] resp.status = 429        -> "rate_limit"
      [] resp.status # 200        -> "api_error"
      [] ~resp.choices            -> "analysis_failed"
      [] OTHER                    -> "none"

\* one except clause for everything the parsing raises
parse_error_one_clause(raised) ==
    IF raised = "none" THEN "none" ELSE "invalid_response"

\* the except clauses of analyze_resume: the message of the ValueError that
\* an exception raised while parsing becomes; a ValueError of int() is
\* raised again as it is
parse_error(raised) ==
    CASE raised = "JSONDecodeError" -> "invalid_response"
      [] raised = "ValueError"      -> "invalid_literal"
      [] raised = "TypeError"       -> "analysis_failed"
      [] OTHER                      -> "none"

\* response.text[:200] with every character kept
excerpt_whole(text) == text

\* response.text[:200]
excerpt(text) == SubSeq(text, 1, Min(Len(text), 200))

NoMessage == [status |-> 0, excerpt |-> <<>>]

\* what the message of the ValueError carries besides its fixed words: the
\* status code and the body excerpt of "API error <status>: <text[:200]>"
error_message(resp) ==
    IF http_error(resp) = "api_error"
    THEN [status |-> resp.status, excerpt |-> excerpt(resp.text)]
    ELSE NoMessage

\* analyze_resume(api_key, model_id, resume_text, job_description, ...) on
\* the response resp of the one requests.post it makes:
\* [error, message, result]
analyze_resume(resp) ==
    LET parsed == parse_response(resp.content)
    IN  IF http_error(resp) # "none"
        THEN [error |-> http_error(resp), message |-> error_message(resp),
              result |-> [key \in {} |-> JNull]]
        ELSE [error |-> parse_error(parsed.raised), message |-> NoMessage,
              result |-> parsed.result]

\* the check for empty text placed inside the try block: its ValueError is
\* caught by the except clause and raised again as a reading failure
extract_text_check_inside_try(pdf) ==
    LET kept == SelectSeq(pdf.pages, LAMBDA page : page # "none")
    IN  IF ~pdf.readable \/ \A i \in DOMAIN kept : kept[i] = "blank"
        THEN [raised |-> "could_not_read", blank |-> TRUE]
        ELSE [raised |-> "none", blank |-> FALSE]

\* extract_text_from_pdf: a page's text is "none" (None or empty), "blank"
\* (white space only) or "words". [raised, blank]
extract_text_from_pdf(pdf) ==
    LET kept == SelectSeq(pdf.pages, LAMBDA page : page # "none")
    IN  IF ~pdf.readable THEN [raised |-> "could_not_read", blank |-> TRUE]
        ELSE IF \A i \in DOMAIN kept : kept[i] = "blank"
        THEN [raised |-> "no_text_found", blank |-> TRUE]
        ELSE [raised |-> "none", blank |-> FALSE]

(* ------------------------------- inputs --------------------------------- *)

Object(members) == <<LBrace>> \o members \o <<RBrace>>

\* completion texts that parse and store
RawStored ==
    { <<Prose, FenceJson, Space>>
        \o Object(<<Member("ats_score", JInt(150)),
                    Member("match_score", JStr(<<"8", "7">>)),
                    Member("missing_skills", JList(<<"Kubernetes">>))>>)
        \o <<Space, Fence, Prose>>,
      Object(<<Member("ats_score", JInt(-5)),
               Member("match_score", JInt(42)),
               Member("missing_skills", JList(<<"Go", "Kubernetes">>))>>),
      <<FenceJson>>
        \o Object(<<Member("ats_score", JInt(70)),
                    Member("missing_skills", JList(<<"Go", "Go">>))>>)
        \o <<Fence>> }

\* completion texts that do not: no JSON, a score that is no number, a score
\* of null, missing_skills of null (which parses, and fails in the store),
\* and braces around text that is no JSON
RawRejected ==
    { <<Prose, Space, Prose>>,
      Object(<<Member("ats_score", JStr(<<"a", "b">>))>>),
      Object(<<Member("match_score", JNull)>>),
      Object(<<Member("ats_score", JInt(50)), Member("missing_skills", JNull)>>),
      <<Prose, LBrace, Prose, RBrace>> }

Response(kind, status, choices, content) ==
    [kind |-> kind, status |-> status, choices |-> choices, content |-> content,
     text |-> <<>>]

\* a response that is not 200, with the body response.text
ErrorResponse(status, text) ==
    [Response("http", status, TRUE, <<>>) EXCEPT !.text = text]

\* a body of n characters
Body(n) == [i \in 1 .. n |-> "x"]

\* what requests.post may come back with
Responses ==
    {Response("http", 200, TRUE, raw) : raw \in RawStored \cup RawRejected}
    \cup {Response("http", st, TRUE, <<>>) : st \in {401, 402, 429, 500}}
    \cup {ErrorResponse(503, Body(200)), ErrorResponse(404, Body(201)),
          ErrorResponse(201, Body(3))}
    \cup {Response("http", 200, FALSE, <<>>),
          Response("timeout", 0, FALSE, <<>>),
          Response("connection", 0, FALSE, <<>>)}

\* the resume widgets: an uploaded PDF (its readability and page texts), no
\* upload yet, or the pasted text (blank or not)
Resumes ==
    {[type |-> "upload", uploaded |-> TRUE, readable |-> rd, pages |-> pg,
      pasted_blank |-> TRUE] :
        rd \in BOOLEAN,
        pg \in {<<"none", "words">>, <<"blank", "none">>, <<>>}}
    \cup {[type |-> "upload", uploaded |-> FALSE, readable |-> FALSE,
           pages |-> <<>>, pasted_blank |-> TRUE]}
    \cup {[type |-> "paste", uploaded |-> FALSE, readable |-> FALSE,
           pages |-> <<>>, pasted_blank |-> b] : b \in BOOLEAN}

\* st.text_input("Job Title")
JobTitles == {<<>>, <<"Data Engineer">>}

\* the job description box: blank, under 50 characters, or longer
JobDescriptions == {"blank", "short", "long"}

Limits == 0 .. MaxLimit

(* ------------------------------- state ----------------------------------- *)

VARIABLES
    db,           \* the database file: the committed tables
    last_result,  \* st.session_state["last_result"]
    last_op,      \* the operation that ran last, its arguments and outcome
    calls,        \* the save_analysis calls that returned: id and skills
    conns,        \* SpecTxn: the connections inside save_analysis
    parse_in,     \* SpecParse: the completion text handed to the parser
    parse_out,    \* SpecParse: what the parser returned
    attempt       \* SpecRequest: one analyze_resume call, step by step

vars == <<db, last_result, last_op, calls, conns, parse_in, parse_out, attempt>>

NoResult == [key \in {} |-> JNull]

NoOp == [op |-> "none", arg |-> 0, extract |-> "none", error |-> "none",
         requests |-> 0, resp |-> Response("none", 0, FALSE, <<>>),
         resume |-> <<>>, id |-> 0, rows |-> <<>>]

NoParse == [raised |-> "idle", result |-> NoResult, raw |-> <<>>]

\* an analyze_resume call that has not started
NoAttempt ==
    [pc |-> "idle", requests |-> 0, silent |-> 0, chunks |-> 0,
     resp |-> Response("none", 0, FALSE, <<>>),
     error |-> "none", message |-> NoMessage, result |-> NoResult]

Init ==
    /\ db = init_db
    /\ last_result = [set |-> FALSE, result |-> NoResult]
    /\ last_op = NoOp
    /\ calls = <<>>
    /\ conns = <<>>
    /\ parse_in = <<>>
    /\ parse_out = NoParse
    /\ attempt = NoAttempt

(* --------------------------- the Analyze page ---------------------------- *)

\* result["job_title"] = job_title before save_analysis(result); the other
\* metadata keys go to columns no query of the model reads
with_metadata(result, job_title) ==
    [k \in DOMAIN result \cup {"job_title"} |->
        IF k = "job_title" THEN JStr(job_title) ELSE result[k]]

\* a handler whose save_analysis sits in a finally clause: the defaults are
\* stored when analyze_resume raised
after_raise_saving_defaults(d) ==
    save_analysis(d, with_metadata(with_defaults(NoResult), <<>>),
                  CHOOSE t \in Times : TRUE).db

\* except ValueError / except Exception around analyze_resume and
\* save_analysis: when analyze_resume raises, save_analysis is not reached
\* and the handler only shows the message
after_raise(d) == d

\* result = analyze_resume(...), for each response the request may get
Analysis == [resp \in Responses |-> analyze_resume(resp)]

\* One run of the script with the Analyze page selected: the resume widgets
\* are read (a PDF is extracted), and when the button was pressed the
\* checks, analyze_resume, save_analysis and the session state follow. Each
\* input is drawn where the script first reads it.
AnalyzePage ==
    /\ Len(calls) < MaxAnalyses
    /\ UNCHANGED <<conns, parse_in, parse_out, attempt>>
    /\ \E resume \in Resumes, analyze_btn \in BOOLEAN :
         LET extraction ==
                 IF resume.type = "upload" /\ resume.uploaded
                 THEN extract_text_from_pdf(resume)
                 ELSE [raised |-> "none", blank |-> resume.pasted_blank]
             op == [NoOp EXCEPT !.op = "analyze",
                                !.extract = extraction.raised,
                                !.resume = <<resume>>]
         IN  IF ~analyze_btn
             THEN /\ last_op' = op
                  /\ UNCHANGED <<db, last_result, calls>>
             ELSE IF extraction.blank
             THEN /\ last_op' = [op EXCEPT !.error = "no_resume"]
                  /\ UNCHANGED <<db, last_result, calls>>
             ELSE \E jd \in JobDescriptions :
               IF jd = "blank"
               THEN /\ last_op' = [op EXCEPT !.error = "no_job_description"]
                    /\ UNCHANGED <<db, last_result, calls>>
               ELSE IF jd = "short"
               THEN /\ last_op' =
                           [op EXCEPT !.error = "job_description_too_short"]
                    /\ UNCHANGED <<db, last_result, calls>>
               ELSE \E resp \in Responses :
                 LET analysis == Analysis[resp]
                 IN  IF analysis.error # "none"
                     THEN /\ last_op' = [op EXCEPT !.error = analysis.error,
                                                   !.requests = 1,
                                                   !.resp = resp]
                          /\ db' = after_raise(db)
                          /\ UNCHANGED <<last_result, calls>>
                     ELSE \E job_title \in JobTitles, t \in Times :
                       LET data == with_metadata(analysis.result, job_title)
                           saved == save_analysis(db, data, t)
                       IN  IF saved.raised # "none"
                           THEN /\ last_op' =
                                       [op EXCEPT !.error = "unexpected_error",
                                                  !.requests = 1,
                                                  !.resp = resp]
                                /\ UNCHANGED <<db, last_result, calls>>
                           ELSE /\ db' = saved.db
                                /\ last_result' =
                                       [set |-> TRUE, result |-> data]
                                /\ calls' = Append(calls,
                                       [id |-> saved.ret,
                                        skills |-> data["missing_skills"].s])
                                /\ last_op' = [op EXCEPT !.requests = 1,
                                                         !.resp = resp,
                                                         !.id = saved.ret]

(* --------------------------- the Dashboard page ---------------------------- *)

\* the delete button of a listed analysis; a page rendered before an earlier
\* delete still offers the id
DashboardDelete ==
    \E analysis_id \in 1 .. (MaxAnalyses + 1) :
        /\ db' = delete_analysis(db, analysis_id)
        /\ last_op' = [NoOp EXCEPT !.op = "delete", !.arg = analysis_id]
        /\ UNCHANGED <<last_result, calls, conns, parse_in, parse_out, attempt>>

Next ==
    \/ AnalyzePage
    \/ DashboardDelete

Spec == Init /\ [][Next]_vars

(* ------------------------- the store, call by call ----------------------- *)

Data(ats, match, skills, job_title) ==
    [k \in {"ats_score", "match_score", "missing_skills", "job_title"} |->
        CASE k = "ats_score"      -> JInt(ats)
          [] k = "match_score"    -> JInt(match)
          [] k = "missing_skills" -> JList(skills)
          [] OTHER                -> JStr(job_title)]

\* the dicts handed to save_analysis
StoreData ==
    {Data(100, 87, <<"Kubernetes">>, <<"Data Engineer">>),
     Data(0, 42, <<"Kubernetes", "Go">>, <<>>),
     Data(70, 0, <<"Go", "go", "Go">>, <<>>)}

SaveAnalysis(data, t) ==
    LET saved == save_analysis(db, data, t)
    IN  /\ Len(calls) < MaxStores
        /\ saved.raised = "none"
        /\ db' = saved.db
        /\ calls' = Append(calls, [id |-> saved.ret,
                                   skills |-> data["missing_skills"].s])
        /\ last_op' = [NoOp EXCEPT !.op = "store", !.id = saved.ret]
        /\ UNCHANGED <<last_result, conns, parse_in, parse_out, attempt>>

DeleteAnalysis(analysis_id) ==
    /\ db' = delete_analysis(db, analysis_id)
    /\ last_op' = [NoOp EXCEPT !.op = "delete", !.arg = analysis_id]
    /\ UNCHANGED <<last_result, calls, conns, parse_in, parse_out, attempt>>

GetAllAnalyses ==
    /\ \E r \in get_all_analyses(db) :
           last_op' = [NoOp EXCEPT !.op = "list_all", !.rows = r]
    /\ UNCHANGED <<db, last_result, calls, conns, parse_in, parse_out, attempt>>

GetScoreTrend ==
    /\ \E r \in get_score_trend(db) :
           last_op' = [NoOp EXCEPT !.op = "score_trend", !.rows = r]
    /\ UNCHANGED <<db, last_result, calls, conns, parse_in, parse_out, attempt>>

GetTopMissingSkills(limit) ==
    /\ \E r \in get_top_missing_skills(db, limit) :
           last_op' = [NoOp EXCEPT !.op = "top_missing_skills",
                                   !.arg = limit, !.rows = r]
    /\ UNCHANGED <<db, last_result, calls, conns, parse_in, parse_out, attempt>>

StoreNext ==
    \/ \E data \in StoreData, t \in Times : SaveAnalysis(data, t)
    \/ \E analysis_id \in 1 .. (MaxStores + 1) : DeleteAnalysis(analysis_id)
    \/ GetAllAnalyses
    \/ GetScoreTrend
    \/ \E limit \in Limits : GetTopMissingSkills(limit)

SpecStore == Init /\ [][StoreNext]_vars

(* ------------------ save_analysis on concurrent connections -------------- *)
\* Each connection runs save_analysis statement by statement. sqlite3 opens
\* a transaction before the INSERT; the INSERT takes the database's write
\* lock, which one connection holds at a time, and the connection's changes
\* stay in its own transaction until conn.commit().

Conns == {1, 2}

IdleConn ==
    [pc |-> "idle", data |-> Data(0, 0, <<>>, <<>>), t |-> 0, i |-> 0,
     work |-> init_db, n |-> 0, overlapped |-> FALSE]

InTransaction(c) == conns[c].pc = "loop"

\* a database without a write lock: any connection may write at any time
CanWrite_unlocked(c) == TRUE

\* the write lock is free or held by c itself: no other connection is
\* inside a transaction that has written
CanWrite(c) == \A o \in Conns \ {c} : ~InTransaction(o)

\* a connection in autocommit mode: each statement is committed as it ends
durable_after_statement_autocommit(d, w) == w

\* what the database file holds after a statement inside the open
\* transaction: the committed tables, until conn.commit()
durable_after_statement(d, w) == d

InitTxn ==
    /\ db = init_db
    /\ last_result = [set |-> FALSE, result |-> NoResult]
    /\ last_op = NoOp
    /\ calls = <<>>
    /\ conns = [c \in Conns |-> IdleConn]
    /\ parse_in = <<>>
    /\ parse_out = NoParse
    /\ attempt = NoAttempt

\* conn = sqlite3.connect(DB_PATH); cursor = conn.cursor()
Connect(c, data, t) ==
    /\ conns[c].pc = "idle"
    /\ conns[1].n + conns[2].n < MaxCalls
    /\ conns' = [conns EXCEPT ![c] =
                    [IdleConn EXCEPT !.pc = "connected", !.data = data,
                                     !.t = t, !.n = conns[c].n + 1]]
    /\ UNCHANGED <<db, last_result, last_op, calls, parse_in, parse_out, attempt>>

\* cursor.execute(INSERT INTO analyses ...): waits for the write lock, then
\* runs in the connection's transaction on the tables as committed
InsertAnalysis(c) ==
    /\ conns[c].pc = "connected"
    /\ CanWrite(c)
    /\ LET w == insert_analysis(db, conns[c].data, conns[c].t)
       IN  /\ conns' = [conns EXCEPT ![c].pc = "loop", ![c].i = 1,
                                     ![c].work = w]
           /\ db' = durable_after_statement(db, w)
    /\ UNCHANGED <<last_result, last_op, calls, parse_in, parse_out, attempt>>

\* the same execute when another connection keeps the lock for longer than
\* the connection's timeout: sqlite3.OperationalError leaves save_analysis
InsertLocked(c) ==
    /\ conns[c].pc = "connected"
    /\ \E o \in Conns \ {c} : InTransaction(o)
    /\ conns' = [conns EXCEPT ![c] = [IdleConn EXCEPT !.n = conns[c].n]]
    /\ last_op' = [NoOp EXCEPT !.op = "store", !.arg = c,
                               !.error = "database_is_locked"]
    /\ UNCHANGED <<db, last_result, calls, parse_in, parse_out, attempt>>

\* one turn of the loop over missing_skills: the upsert of skill number i
UpsertSkill(c) ==
    /\ conns[c].pc = "loop"
    /\ conns[c].i <= Len(conns[c].data["missing_skills"].s)
    /\ LET w == [conns[c].work EXCEPT !.skill_tracker =
                    upsert_skill(@, conns[c].data["missing_skills"].s[conns[c].i],
                                 strftime_date(conns[c].t))]
       IN  /\ conns' = [conns EXCEPT ![c].i = @ + 1, ![c].work = w,
                           ![c].overlapped =
                               @ \/ \E o \in Conns \ {c} : conns[o].pc # "idle"]
           /\ db' = durable_after_statement(db, w)
    /\ UNCHANGED <<last_result, last_op, calls, parse_in, parse_out, attempt>>

\* conn.commit(); conn.close(); return new_id
Commit(c) ==
    /\ conns[c].pc = "loop"
    /\ conns[c].i > Len(conns[c].data["missing_skills"].s)
    /\ db' = conns[c].work
    /\ calls' = Append(calls, [id |-> conns[c].work.seq,
                               skills |-> conns[c].data["missing_skills"].s,
                               overlapped |-> conns[c].overlapped])
    /\ last_op' = [NoOp EXCEPT !.op = "store", !.arg = c,
                               !.id = conns[c].work.seq]
    /\ conns' = [conns EXCEPT ![c] = [IdleConn EXCEPT !.n = conns[c].n]]
    /\ UNCHANGED <<last_result, parse_in, parse_out, attempt>>

\* the call ends between the INSERT and the commit, by an exception or with
\* the process: the connection goes away and its transaction is rolled back
Interrupt(c) ==
    /\ conns[c].pc = "loop"
    /\ conns' = [conns EXCEPT ![c] = [IdleConn EXCEPT !.n = conns[c].n]]
    /\ last_op' = [NoOp EXCEPT !.op = "store", !.arg = c,
                               !.error = "interrupted",
                               !.rows = conns[c].work.skill_tracker]
    /\ UNCHANGED <<db, last_result, calls, parse_in, parse_out, attempt>>

TxnNext ==
    \/ \E c \in Conns, data \in StoreData, t \in TxnTimes : Connect(c, data, t)
    \/ \E c \in Conns : InsertAnalysis(c)
    \/ \E c \in Conns : InsertLocked(c)
    \/ \E c \in Conns : UpsertSkill(c)
    \/ \E c \in Conns : Commit(c)
    \/ \E c \in Conns : Interrupt(c)

SpecTxn == InitTxn /\ [][TxnNext]_vars

(* ------------------------ the parser on its own -------------------------- *)

\* values a score key may carry
ScoreValues ==
    {JInt(-5), JInt(0), JInt(42), JInt(100), JInt(150),
     JStr(<<"8", "7">>), JStr(<<" ", "1", "5", "0", " ">>), JStr(<<"-", "5">>),
     JStr(<<"a", "b">>), JNull}

\* the members of an object with the given scores; <<>> leaves the key out
ScoreMembers(ats, match) ==
    (IF ats = <<>> THEN <<>> ELSE <<Member("ats_score", ats[1])>>)
    \o (IF match = <<>> THEN <<>> ELSE <<Member("match_score", match[1])>>)

ScoreChoices == {<<>>} \cup {<<v>> : v \in ScoreValues}

\* a score-carrying JSON object text
ScoreObjects ==
    {Object(ScoreMembers(ats, match)) :
        ats \in ScoreChoices, match \in ScoreChoices}

\* a leading json fence or bare fence and a trailing fence, with and without
\* white space around the markers
FenceWrappings ==
    {[pre |-> pre, post |-> post] :
        pre \in {<<FenceJson>>, <<FenceJson, Space>>, <<Space, FenceJson, Space>>,
                 <<Fence>>, <<Fence, Space>>, <<Space, Fence, Space>>},
        post \in {<<Fence>>, <<Space, Fence>>, <<Space, Fence, Space>>}}

\* a value of its documented type for each recognized key
SampleValue ==
    [k \in Range(Fields) |->
        CASE k = "ats_score" -> JInt(150)
          [] k = "match_score" -> JStr(<<"8", "7">>)
          [] k \in {"experience_gap", "education_match", "overall_summary"} ->
                JStr(<<"o", "k">>)
          [] OTHER -> JList(<<"Go">>)]

\* the object that has the keys of present, in the order of Fields
FieldObject(present, values) ==
    LET kept == SelectSeq(Fields, LAMBDA k : k \in present)
    IN  Object([i \in DOMAIN kept |-> Member(kept[i], values[kept[i]])])

\* an object for every subset of the recognized keys
FieldObjects == {FieldObject(present, SampleValue) : present \in SUBSET Range(Fields)}

\* commentary before and after the object, with and without fences between
\* the commentary and the object
ProseWrappings ==
    {[pre |-> pre, post |-> post] :
        pre \in {<<Prose>>, <<Prose, Space>>, <<Prose, Space, FenceJson, Space>>,
                 <<Fence, Prose, Space>>},
        post \in {<<Prose>>, <<Space, Prose>>, <<Space, Fence, Space, Prose>>,
                  <<Space, Prose, Fence>>}}

\* objects in which a list key or a text key has null or a value of another
\* type
OddObjects ==
    {Object(<<Member("ats_score", JInt(50)), Member(k, v)>>) :
        k \in Range(Fields) \ {"ats_score", "match_score"},
        v \in {JNull, JInt(7), JStr(<<"G", "o">>), JList(<<"Go">>)}}

\* completion texts: each object bare, in fences, and inside commentary
ParseInputs ==
    ScoreObjects
    \cup FieldObjects
    \cup OddObjects
    \cup {w.pre \o J \o w.post : J \in ScoreObjects, w \in FenceWrappings}
    \cup {w.pre \o J \o w.post : J \in ScoreObjects, w \in ProseWrappings}
    \cup {<<Prose, Space, Prose>>}

InitParse ==
    /\ db = init_db
    /\ last_result = [set |-> FALSE, result |-> NoResult]
    /\ last_op = NoOp
    /\ calls = <<>>
    /\ conns = <<>>
    /\ parse_in \in ParseInputs
    /\ parse_out = NoParse
    /\ attempt = NoAttempt

\* the parsing part of one analyze_resume call
Parse ==
    /\ parse_out.raised = "idle"
    /\ parse_out' = parse_response(parse_in)
    /\ UNCHANGED <<db, last_result, last_op, calls, conns, parse_in, attempt>>

SpecParse == InitParse /\ [][Parse]_vars

(* ------------------- analyze_resume, step by step ------------------------ *)
\* One call of analyze_resume: requests.post sends the request and waits on
\* the socket; the wait for the next bytes is cut off after timeout seconds
\* without any, which raises requests.Timeout. The function has no loop: the
\* status checks and the parsing follow the one response, and an exception
\* leaves the function through an except clause.

InitRequest ==
    /\ db = init_db
    /\ last_result = [set |-> FALSE, result |-> NoResult]
    /\ last_op = NoOp
    /\ calls = <<>>
    /\ conns = <<>>
    /\ parse_in = <<>>
    /\ parse_out = NoParse
    /\ attempt = [NoAttempt EXCEPT !.pc = "start"]

\* an except clause that calls the endpoint again
after_error_retry(error) == "start"

\* the except clauses raise ValueError: the call ends
after_error(error) == "raised"

\* requests.post(..., timeout=60) sends the request
Post ==
    /\ attempt.pc = "start"
    /\ attempt' = [attempt EXCEPT !.pc = "waiting", !.requests = @ + 1,
                                  !.silent = 0, !.chunks = 0]
    /\ UNCHANGED <<db, last_result, last_op, calls, conns, parse_in, parse_out>>

\* a second passes without bytes from the server
Tick ==
    /\ attempt.pc = "waiting"
    /\ attempt.silent < timeout
    /\ attempt' = [attempt EXCEPT !.silent = @ + 1]
    /\ UNCHANGED <<db, last_result, last_op, calls, conns, parse_in, parse_out>>

\* part of the response arrives: the wait starts again
Receive ==
    /\ attempt.pc = "waiting"
    /\ attempt.chunks < MaxChunks
    /\ attempt' = [attempt EXCEPT !.silent = 0, !.chunks = @ + 1]
    /\ UNCHANGED <<db, last_result, last_op, calls, conns, parse_in, parse_out>>

\* the wait is cut off: requests.post raises requests.Timeout
Timeout ==
    /\ attempt.pc = "waiting"
    /\ attempt.silent = timeout
    /\ attempt' = [attempt EXCEPT !.pc = "responded",
                                  !.resp = Response("timeout", 0, FALSE, <<>>)]
    /\ UNCHANGED <<db, last_result, last_op, calls, conns, parse_in, parse_out>>

\* the response is complete, or the connection fails: requests.post returns
\* or raises
Respond(resp) ==
    /\ attempt.pc = "waiting"
    /\ resp.kind # "timeout"
    /\ attempt' = [attempt EXCEPT !.pc = "responded", !.resp = resp]
    /\ UNCHANGED <<db, last_result, last_op, calls, conns, parse_in, parse_out>>

\* the status checks, the parsing, and return result or the except clauses
Finish ==
    /\ attempt.pc = "responded"
    /\ LET analysis == Analysis[attempt.resp]
       IN  attempt' =
               [attempt EXCEPT !.pc = IF analysis.error = "none" THEN "returned"
                                      ELSE after_error(analysis.error),
                               !.error = analysis.error,
                               !.message = analysis.message,
                               !.result = analysis.result]
    /\ UNCHANGED <<db, last_result, last_op, calls, conns, parse_in, parse_out>>

RequestNext ==
    \/ Post
    \/ Tick
    \/ Receive
    \/ Timeout
    \/ \E resp \in Responses : Respond(resp)
    \/ Finish

SpecRequest == InitRequest /\ [][RequestNext]_vars

\* the interpreter keeps running the call, and the socket wait keeps counting
SpecRequestFair == SpecRequest /\ WF_vars(RequestNext)

(* ------------------------------ properties ------------------------------ *)

Ids(d) == {d.analyses[i].id : i \in DOMAIN d.analyses}

RowsOf(d, skill) ==
    {i \in DOMAIN d.skill_tracker : d.skill_tracker[i].skill = skill}

Skills == {"Go", "Kubernetes", "go"}

\* the second of a created_at text, as a number
SecondOf(text) == text[1] * 10 + text[2]

DistinctCreatedAt(d) ==
    \A i, j \in DOMAIN d.analyses :
        i # j => d.analyses[i].created_at # d.analyses[j].created_at

\* C1: a run of the Analyze page that ends in an error of extraction, of the
\* checks, of the HTTP call or of parsing leaves both tables and the result
\* in the session state as they were; a run that adds a record had no error,
\* made its one request, and adds exactly one record.
C1_FailedAttemptStoresNothing ==
    [][last_op'.op = "analyze" =>
         /\ (last_op'.error # "none" \/ last_op'.extract # "none")
                => /\ db' = db
                   /\ last_result' = last_result
         /\ db' # db
                => /\ last_op'.error = "none"
                   /\ last_op'.extract = "none"
                   /\ last_op'.requests = 1
                   /\ Len(db'.analyses) = Len(db.analyses) + 1
                   /\ last_result'.set]_vars

\* an attempt has just failed after its request, with a record in the store
C1_Witness ==
    /\ last_op.op = "analyze"
    /\ last_op.error \in {"invalid_api_key", "invalid_response", "timed_out"}
    /\ last_op.requests = 1
    /\ Len(db.analyses) = 1
    /\ last_result.set

\* the value the completion text gives a key: that of the key's last member,
\* <<>> when the key is absent
InputValue(key) ==
    LET at == {i \in DOMAIN parse_in :
                   parse_in[i].tok = "member" /\ parse_in[i].k = key}
    IN  IF at = {} THEN <<>>
        ELSE <<parse_in[CHOOSE i \in at : \A j \in at : j <= i].v>>

\* the score the claim gives for an int and for the numeric strings
ExpectedScore(v) ==
    CASE v.t = "int" /\ v.n > 100 -> 100
      [] v.t = "int" /\ v.n < 0   -> 0
      [] v.t = "int"              -> v.n
      [] v = JStr(<<"8", "7">>)   -> 87
      [] v = JStr(<<" ", "1", "5", "0", " ">>) -> 100
      [] v = JStr(<<"-", "5">>)   -> 0
      [] OTHER                    -> 0 - 1

Numeric(v) == ExpectedScore(v) >= 0

\* C2: when parsing succeeds both scores are ints from 0 to 100: above 100
\* gives 100, below 0 gives 0, a numeric string its number (then clamped),
\* an int in range itself; and a text whose scores are ints or numeric
\* strings, whatever their size, is parsed without an error.
C2_ScoresClamped ==
    /\ parse_out.raised = "none" =>
         \A key \in {"ats_score", "match_score"} :
             /\ parse_out.result[key].t = "int"
             /\ parse_out.result[key].n \in 0 .. 100
             /\ (InputValue(key) # <<>> /\ Numeric(InputValue(key)[1]))
                    => parse_out.result[key].n = ExpectedScore(InputValue(key)[1])
    /\ ( /\ parse_out.raised # "idle"
         /\ \E i \in DOMAIN parse_in : parse_in[i] = LBrace
         /\ \A key \in {"ats_score", "match_score"} :
                InputValue(key) = <<>> \/ Numeric(InputValue(key)[1]) )
           => parse_out.raised = "none"

\* a fenced text with scores 150 and "-5" was parsed to 100 and 0
C2_Witness ==
    /\ parse_out.raised = "none"
    /\ Head(parse_in) = FenceJson
    /\ InputValue("ats_score") = <<JInt(150)>>
    /\ InputValue("match_score") = <<JStr(<<"-", "5">>)>>
    /\ parse_out.result["ats_score"] = JInt(100)
    /\ parse_out.result["match_score"] = JInt(0)

\* C3: no two rows of skill_tracker have the same skill; and when every
\* save_analysis call so far named a skill exactly once, the one row of that
\* skill has times_required equal to the number of calls.
C3_OneRowCountsCalls ==
    /\ \A i, j \in DOMAIN db.skill_tracker :
           i # j => db.skill_tracker[i].skill # db.skill_tracker[j].skill
    /\ \A s \in Skills :
           (calls # <<>> /\ \A c \in DOMAIN calls : Occ(s, calls[c].skills) = 1)
               => /\ Cardinality(RowsOf(db, s)) = 1
                  /\ \A i \in RowsOf(db, s) :
                         db.skill_tracker[i].times_required = Len(calls)

\* three calls named Kubernetes once each
C3_Witness ==
    /\ Len(calls) = 3
    /\ \A c \in DOMAIN calls : Occ("Kubernetes", calls[c].skills) = 1
    /\ \E i \in DOMAIN db.skill_tracker :
           /\ db.skill_tracker[i].skill = "Kubernetes"
           /\ db.skill_tracker[i].times_required = 3

\* the sum of times_required over the rows of a skill
RECURSIVE SumTimes(_, _)
SumTimes(tracker, skill) ==
    IF tracker = <<>> THEN 0
    ELSE (IF Head(tracker).skill = skill THEN Head(tracker).times_required
          ELSE 0) + SumTimes(Tail(tracker), skill)

\* the number of upserts of a skill the calls of q made
RECURSIVE SumOcc(_, _)
SumOcc(skill, q) ==
    IF q = <<>> THEN 0
    ELSE Occ(skill, Head(q).skills) + SumOcc(skill, Tail(q))

\* the number of upserts of a skill the stored records call for
RECURSIVE SumMissing(_, _)
SumMissing(skill, rows) ==
    IF rows = <<>> THEN 0
    ELSE Occ(skill, Head(rows).missing_skills.s) + SumMissing(skill, Tail(rows))

\* C4: with save_analysis calls running on two connections at once, each
\* skill has at most one row, and its times_required is the number of
\* upserts made by the calls that completed: none is lost, whatever the
\* interleaving.
C4_NoLostIncrement ==
    \A s \in Skills :
        /\ Cardinality(RowsOf(db, s)) <= 1
        /\ SumTimes(db.skill_tracker, s) = SumOcc(s, calls)
        /\ SumOcc(s, calls) > 0 => Cardinality(RowsOf(db, s)) = 1

\* two calls naming Kubernetes were inside save_analysis at the same time,
\* from an empty table, and both completed
C4_Witness ==
    /\ Len(calls) = 2
    /\ calls[1].overlapped
    /\ conns[1].n = 1 /\ conns[2].n = 1
    /\ \A c \in Conns : conns[c].pc = "idle"
    /\ SumTimes(db.skill_tracker, "Kubernetes") = 2

\* C5: the committed tables hold exactly the records of the calls that
\* reached their commit, and for each skill exactly the upserts those
\* records call for: never a record without all its counter updates, nor
\* counter updates without their record, whenever a call is interrupted.
C5_AllOrNothing ==
    /\ Ids(db) = {calls[i].id : i \in DOMAIN calls}
    /\ Len(db.analyses) = Len(calls)
    /\ \A s \in Skills :
           SumTimes(db.skill_tracker, s) = SumMissing(s, db.analyses)

\* a call was interrupted after its INSERT and one of its upserts, with one
\* record committed before it
C5_Witness ==
    /\ last_op.op = "store"
    /\ last_op.error = "interrupted"
    /\ Len(db.analyses) = 1
    /\ SumTimes(last_op.rows, "Kubernetes")
           = SumTimes(db.skill_tracker, "Kubernetes") + 1
    /\ SumTimes(last_op.rows, "Go") = SumTimes(db.skill_tracker, "Go")
    /\ SumTimes(db.skill_tracker, "Go") = 0

\* C6: delete_analysis(id) removes the rows with that id and nothing else:
\* the other rows stay as they are and in place, skill_tracker and the
\* sequence are unchanged, an id that is not there changes nothing, and a
\* second delete of the same id changes nothing.
C6_DeleteFrame ==
    [][last_op'.op = "delete" =>
         /\ Ids(db') = Ids(db) \ {last_op'.arg}
         /\ \A i \in DOMAIN db'.analyses :
                \E j \in DOMAIN db.analyses : db'.analyses[i] = db.analyses[j]
         /\ Len(db'.analyses) =
                Len(db.analyses) - (IF last_op'.arg \in Ids(db) THEN 1 ELSE 0)
         /\ db'.skill_tracker = db.skill_tracker
         /\ db'.seq = db.seq
         /\ calls' = calls
         /\ last_op'.arg \notin Ids(db) => db' = db
         /\ (last_op.op = "delete" /\ last_op.arg = last_op'.arg) => db' = db]_vars

\* a stored record was just deleted, others and the skill rows remain
C6_Witness ==
    /\ last_op.op = "delete"
    /\ \E c \in DOMAIN calls : calls[c].id = last_op.arg
    /\ last_op.arg \notin Ids(db)
    /\ Len(db.analyses) = 2
    /\ db.skill_tracker # <<>>

\* C7: when the surviving records have pairwise distinct created_at,
\* get_all_analyses returns exactly them from newest to oldest,
\* get_score_trend returns one entry for each from oldest to newest, and the
\* trend is the listing reversed.
C7_NewestFirstOldestFirst ==
    DistinctCreatedAt(db) =>
      /\ last_op.op = "list_all" =>
           /\ Len(last_op.rows) = Len(db.analyses)
           /\ Range(last_op.rows) = Range(db.analyses)
           /\ \A i, j \in DOMAIN last_op.rows :
                  i < j => SecondOf(last_op.rows[i].created_at)
                              > SecondOf(last_op.rows[j].created_at)
      /\ last_op.op = "score_trend" =>
           /\ Len(last_op.rows) = Len(db.analyses)
           /\ Range(last_op.rows) =
                  {[date |-> r.created_at, ats |-> r.ats_score,
                    match |-> r.match_score, job |-> r.job_title] :
                       r \in Range(db.analyses)}
           /\ \A i, j \in DOMAIN last_op.rows :
                  i < j => SecondOf(last_op.rows[i].date)
                              < SecondOf(last_op.rows[j].date)
      /\ \A l \in get_all_analyses(db), tr \in get_score_trend(db) :
           /\ Len(tr) = Len(l)
           /\ \A i \in DOMAIN tr :
                  /\ tr[i].date = l[Len(l) + 1 - i].created_at
                  /\ tr[i].ats = l[Len(l) + 1 - i].ats_score
                  /\ tr[i].match = l[Len(l) + 1 - i].match_score
                  /\ tr[i].job = l[Len(l) + 1 - i].job_title

\* three records stored at increasing seconds were listed, the last stored
\* first
C7_Witness ==
    /\ last_op.op = "list_all"
    /\ Len(last_op.rows) = 3
    /\ DistinctCreatedAt(db)
    /\ last_op.rows[1].id = 3
    /\ last_op.rows[3].id = 1

\* C8: in a listing, records with the same created_at appear in the order
\* in which they were stored.
C8_TiesInInsertionOrder ==
    last_op.op = "list_all" =>
        \A i, j \in DOMAIN last_op.rows :
            (i < j /\ last_op.rows[i].created_at = last_op.rows[j].created_at)
                => last_op.rows[i].id < last_op.rows[j].id

\* order of the skill names as texts
SkillRank(skill) ==
    CASE skill = "Go" -> 1
      [] skill = "Kubernetes" -> 2
      [] OTHER -> 3

\* C9: get_top_missing_skills(limit) returns min(limit, rows) entries, the
\* ones with the largest times_required, by times_required descending and,
\* among equal counts, by skill ascending.
C9_TopSkillsTieBySkill ==
    last_op.op = "top_missing_skills" =>
        /\ Len(last_op.rows) = Min(last_op.arg, Len(db.skill_tracker))
        /\ \A i, j \in DOMAIN last_op.rows :
               i < j =>
                 \/ last_op.rows[i].count > last_op.rows[j].count
                 \/ /\ last_op.rows[i].count = last_op.rows[j].count
                    /\ SkillRank(last_op.rows[i].skill)
                           < SkillRank(last_op.rows[j].skill)
        /\ \A k \in DOMAIN db.skill_tracker :
               LET row == db.skill_tracker[k]
               IN  (\A i \in DOMAIN last_op.rows :
                        last_op.rows[i].skill # row.skill)
                     => \A i \in DOMAIN last_op.rows :
                          \/ last_op.rows[i].count > row.times_required
                          \/ /\ last_op.rows[i].count = row.times_required
                             /\ SkillRank(last_op.rows[i].skill)
                                    < SkillRank(row.skill)

\* C10: the ids save_analysis returned are strictly increasing in the order
\* of the calls, whatever was deleted in between.
C10_IdsIncrease ==
    \A i, j \in DOMAIN calls : i < j => calls[i].id < calls[j].id

\* the third call has just returned, after the record with the highest id
\* was deleted
C10_Witness ==
    /\ last_op.op = "store"
    /\ Len(calls) = 3
    /\ last_op.id = calls[3].id
    /\ calls[2].id \notin Ids(db)

Ended == attempt.pc \in {"returned", "raised"}

\* the five conditions of the HTTP call, by the message of their ValueError
ClientErrors ==
    {"invalid_api_key", "insufficient_credits", "rate_limit", "api_error",
     "timed_out"}

\* the error the status line or the timeout of a response calls for; "none"
\* for a 200 and for what is no outcome of the HTTP exchange
ExpectedClientError(resp) ==
    CASE resp.kind = "timeout" -> "timed_out"
      [] resp.kind = "http" /\ resp.status = 401 -> "invalid_api_key"
      [] resp.kind = "http" /\ resp.status = 402 -> "insufficient_credits"
      [] resp.kind = "http" /\ resp.status = 429 -> "rate_limit"
      [] resp.kind = "http" /\ resp.status # 200 -> "api_error"
      [] OTHER -> "none"

\* C11: when a call of analyze_resume has ended, a 401, 402, 429, any other
\* status that is not 200, and a timeout each gave their own error, and each
\* of these five errors came from that outcome and from no other; the error
\* of another status carries the status code and the first 200 characters of
\* the body (all of a shorter body); a call that returned a result or failed
\* in parsing had a 200 response.
C11_ErrorPerOutcome ==
    Ended =>
        LET expected == ExpectedClientError(attempt.resp)
        IN  /\ expected # "none" => /\ attempt.pc = "raised"
                                    /\ attempt.error = expected
            /\ attempt.error \in ClientErrors => attempt.error = expected
            /\ attempt.error = "api_error" =>
                   /\ attempt.message.status = attempt.resp.status
                   /\ Len(attempt.message.excerpt) <= 200
                   /\ Len(attempt.message.excerpt) =
                          Min(200, Len(attempt.resp.text))
                   /\ attempt.message.excerpt =
                          SubSeq(attempt.resp.text, 1,
                                 Len(attempt.message.excerpt))
            /\ (attempt.pc = "returned"
                \/ attempt.error \in {"invalid_response", "invalid_literal"})
                   => /\ attempt.resp.kind = "http"
                      /\ attempt.resp.status = 200

\* a 404 with a body of 201 characters ended as an API error with 200 of them
C11_Witness ==
    /\ attempt.pc = "raised"
    /\ attempt.error = "api_error"
    /\ attempt.resp.status = 404
    /\ Len(attempt.resp.text) = 201
    /\ Len(attempt.message.excerpt) = 200

Parsed == parse_out.raised # "idle"

IsFence(x) == x \in {Fence, FenceJson}

\* the tokens from the first opening brace to the last closing brace
Between(text) ==
    LET braces == {i \in DOMAIN text : text[i] \in {LBrace, RBrace}}
        first  == CHOOSE i \in braces : \A j \in braces : i <= j
        last   == CHOOSE i \in braces : \A j \in braces : j <= i
    IN  IF braces = {} THEN <<>> ELSE SubSeq(text, first, last)

\* the parse of the object on its own, as SpecParse reaches it
BareParse(J) == parse_response(J)

\* C13: a parsed text that is a JSON object inside a leading json fence or
\* bare fence and a trailing fence, with or without white space around the
\* markers, has the result (or the error) of the object parsed on its own;
\* and a text without any fence that is an object, or has no braces at all,
\* goes to json.loads as it is.
C13_FencesChangeNothing ==
    Parsed =>
        /\ \A w \in FenceWrappings :
               parse_in = w.pre \o Between(parse_in) \o w.post
                   => /\ parse_out.raised = BareParse(Between(parse_in)).raised
                      /\ parse_out.result = BareParse(Between(parse_in)).result
        /\ ( /\ \A i \in DOMAIN parse_in : ~IsFence(parse_in[i])
              /\ Between(parse_in) \in {<<>>, parse_in} )
               => parse_out.raw = parse_in

\* an object with both scores inside a bare fence with white space, parsed
C13_Witness ==
    /\ parse_out.raised = "none"
    /\ Head(parse_in) = Fence
    /\ parse_in[2] = Space
    /\ parse_in[Len(parse_in)] = Fence
    /\ parse_out.result["ats_score"] = JInt(100)
    /\ parse_out.result["match_score"] = JInt(87)

\* the defaults as documented: 0 for the scores, the empty list for the six
\* list fields, the empty string for the three text fields
DocumentedDefault(key) ==
    CASE key \in {"ats_score", "match_score"} -> JInt(0)
      [] key \in {"matched_skills", "missing_skills", "strengths",
                  "improvements", "keyword_suggestions", "quick_wins"} ->
            JList(<<>>)
      [] key \in {"experience_gap", "education_match", "overall_summary"} ->
            JStr(<<>>)

ElevenFields ==
    {"ats_score", "match_score", "matched_skills", "missing_skills",
     "strengths", "improvements", "keyword_suggestions", "experience_gap",
     "education_match", "overall_summary", "quick_wins"}

\* C14: the result of a successful parse has all eleven recognized keys; a
\* key the object has keeps the object's value (a score its coerced and
\* clamped number), and a key the object lacks has its default.
C14_AbsentFieldsDefaulted ==
    parse_out.raised = "none" =>
        \A key \in ElevenFields :
            /\ key \in DOMAIN parse_out.result
            /\ InputValue(key) = <<>>
                   => parse_out.result[key] = DocumentedDefault(key)
            /\ InputValue(key) # <<>> =>
                   IF key \in {"ats_score", "match_score"}
                   THEN Numeric(InputValue(key)[1]) =>
                            parse_out.result[key] =
                                JInt(ExpectedScore(InputValue(key)[1]))
                   ELSE parse_out.result[key] = InputValue(key)[1]

\* an object with ats_score alone was parsed: the ten other keys are defaults
C14_Witness ==
    /\ parse_out.raised = "none"
    /\ parse_in = Object(<<Member("ats_score", JInt(150))>>)
    /\ parse_out.result["ats_score"] = JInt(100)
    /\ \A key \in ElevenFields \ {"ats_score"} :
           parse_out.result[key] = DocumentedDefault(key)

\* the text has commentary before its first brace or after its last one
HasCommentary(text) ==
    \E i \in DOMAIN text :
        /\ text[i] = Prose
        /\ \/ \A j \in 1 .. i : text[j] # LBrace
           \/ \A j \in i .. Len(text) : text[j] # RBrace

\* C15: of a parsed text with an object inside commentary, fenced or not,
\* json.loads is given exactly the tokens from the first opening brace to the
\* last closing brace, and the result (or the error) is that of the object
\* parsed on its own.
C15_ProseIgnored ==
    (Parsed /\ HasCommentary(parse_in) /\ Between(parse_in) # <<>>) =>
        /\ parse_out.raw = Between(parse_in)
        /\ parse_out.raised = BareParse(Between(parse_in)).raised
        /\ parse_out.result = BareParse(Between(parse_in)).result

\* an object between commentary, without fences, was parsed to its scores
C15_Witness ==
    /\ parse_out.raised = "none"
    /\ Head(parse_in) = Prose
    /\ parse_in[Len(parse_in)] = Prose
    /\ \A i \in DOMAIN parse_in : ~IsFence(parse_in[i])
    /\ InputValue("ats_score") = <<JInt(-5)>>
    /\ parse_out.result["ats_score"] = JInt(0)
    /\ parse_out.result["match_score"] = JInt(0)
    /\ Len(parse_out.raw) = 3

\* the value a text gives a key: that of the key's last member
ValueIn(text, key) ==
    LET at == {i \in DOMAIN text : text[i].tok = "member" /\ text[i].k = key}
    IN  IF at = {} THEN <<>>
        ELSE <<text[CHOOSE i \in at : \A j \in at : j <= i].v>>

\* between its first and last brace the text has members and white space
\* only
ValidJson(text) ==
    LET inner == Between(text)
    IN  /\ inner # <<>>
        /\ \A i \in 2 .. (Len(inner) - 1) :
               inner[i].tok = "member" \/ inner[i] = Space

\* a score of the text is neither an int nor a numeric string
ScoreNotCoercible(text) ==
    \E key \in {"ats_score", "match_score"} :
        /\ ValueIn(text, key) # <<>>
        /\ ~Numeric(ValueIn(text, key)[1])

\* the run got a 200 response with a completion text
GotCompletion(op) ==
    /\ op.op = "analyze"
    /\ op.requests = 1
    /\ op.resp.kind = "http"
    /\ op.resp.status = 200
    /\ op.resp.choices

\* C16: a run of the Analyze page whose completion text is no valid JSON
\* ends with the invalid-response error; one whose text is valid JSON with a
\* score that is no number ends with an error of the coercion, which is not
\* the invalid-response error; in both runs no result reaches the session
\* state and both tables stay as they were.
C16_ParseErrorsKeptApart ==
    [][GotCompletion(last_op') =>
         /\ ~ValidJson(last_op'.resp.content)
                => /\ last_op'.error = "invalid_response"
                   /\ db' = db
                   /\ last_result' = last_result
         /\ (ValidJson(last_op'.resp.content)
             /\ ScoreNotCoercible(last_op'.resp.content))
                => /\ last_op'.error \in {"invalid_literal", "analysis_failed"}
                   /\ db' = db
                   /\ last_result' = last_result]_vars

\* after one stored analysis, a run whose ats_score was no number ended with
\* the coercion error and the tables still hold the one record
C16_Witness ==
    /\ GotCompletion(last_op)
    /\ ValueIn(last_op.resp.content, "ats_score") = <<JStr(<<"a", "b">>)>>
    /\ last_op.error = "invalid_literal"
    /\ Len(db.analyses) = 1
    /\ last_result.set

\* the run read an uploaded PDF
Uploaded(op) ==
    /\ op.op = "analyze"
    /\ op.resume # <<>>
    /\ op.resume[1].type = "upload"
    /\ op.resume[1].uploaded

\* no page of the PDF has text other than white space
NoPageHasText(pdf) == \A i \in DOMAIN pdf.pages : pdf.pages[i] # "words"

\* C17: a run of the Analyze page on a readable PDF none of whose pages has
\* text ends the extraction with the no-text error, and on an unreadable PDF
\* with the could-not-read error, which is another one; after the no-text
\* error, with the button pressed or not, no request is made, no result
\* reaches the session state and both tables stay as they were.
C17_EmptyPdfStopsTheRun ==
    [][Uploaded(last_op') =>
         /\ (last_op'.resume[1].readable /\ NoPageHasText(last_op'.resume[1]))
                => last_op'.extract = "no_text_found"
         /\ ~last_op'.resume[1].readable
                => last_op'.extract = "could_not_read"
         /\ last_op'.extract = "no_text_found"
                => /\ last_op'.requests = 0
                   /\ last_op'.error \in {"none", "no_resume"}
                   /\ db' = db
                   /\ last_result' = last_result]_vars

\* after one stored analysis, the button was pressed on a PDF with a blank
\* page and a page without text: no request, the one record still there
C17_Witness ==
    /\ Uploaded(last_op)
    /\ last_op.resume[1].pages = <<"blank", "none">>
    /\ last_op.extract = "no_text_found"
    /\ last_op.error = "no_resume"
    /\ last_op.requests = 0
    /\ Len(db.analyses) = 1

\* the calls whose missing_skills list has the skill
CallsNaming(skill) ==
    {c \in DOMAIN calls : Occ(skill, calls[c].skills) > 0}

\* C18: after any save_analysis calls, the times_required of each skill is
\* the number of calls whose missing_skills has the skill, however often
\* the skill stands in one call's list, and skills that differ in case are
\* counted apart.
C18_OneIncrementPerCall ==
    \A s \in Skills :
        SumTimes(db.skill_tracker, s) = Cardinality(CallsNaming(s))

\* C19: every row of skill_tracker has times_required of at least 1, and
\* over every save_analysis and delete_analysis each row stays, with a
\* times_required that is no smaller than before.
C19_SkillTableOnlyGrows ==
    /\ [](\A i \in DOMAIN db.skill_tracker :
              db.skill_tracker[i].times_required >= 1)
    /\ [][\A i \in DOMAIN db.skill_tracker :
              \E j \in DOMAIN db'.skill_tracker :
                  /\ db'.skill_tracker[j].skill = db.skill_tracker[i].skill
                  /\ db'.skill_tracker[j].times_required
                         >= db.skill_tracker[i].times_required]_vars

\* both records that named Kubernetes were deleted; its row still counts 2
C19_Witness ==
    /\ last_op.op = "delete"
    /\ Len(calls) = 2
    /\ db.analyses = <<>>
    /\ \E i \in DOMAIN db.skill_tracker :
           /\ db.skill_tracker[i].skill = "Kubernetes"
           /\ db.skill_tracker[i].times_required = 2

ListFields ==
    {"matched_skills", "missing_skills", "strengths", "improvements",
     "keyword_suggestions", "quick_wins"}

TextFields == {"experience_gap", "education_match", "overall_summary"}

\* C20: the result of every successful parse has int scores from 0 to 100, a
\* list under each of the six list keys and a string under each of the three
\* text keys, and save_analysis of it does not raise.
C20_ResultConforms ==
    parse_out.raised = "none" =>
        /\ \A key \in {"ats_score", "match_score"} :
               /\ parse_out.result[key].t = "int"
               /\ parse_out.result[key].n \in 0 .. 100
        /\ \A key \in ListFields : parse_out.result[key].t = "list"
        /\ \A key \in TextFields : parse_out.result[key].t = "str"
        /\ \A t \in Times :
               save_analysis(init_db, parse_out.result, t).raised = "none"

====
